---- MODULE Spec2Model ----
(* A model of the TTS API server (src/server.js): the PCM-to-WAV encoder     *)
(* pcmToWav, the voice table VOICE_CONFIG, the deadline helper               *)
(* generateTTSWithTimeout and the POST /synthesize handler with its retry    *)
(* loop.                                                                     *)
(*                                                                           *)
(* JavaScript strings are TLA+ strings.  A JavaScript value that may be      *)
(* something else than a string is a record [t, v]: its type and, for a      *)
(* string, its characters (for a function or an object, its name).  A Buffer *)
(* is a sequence of bytes 0..255.  A base64 string is a sequence of the      *)
(* alphabet's indices 0..63, with 64 for the padding character '='.          *)
EXTENDS Integers, Sequences, FiniteSets, TLC

----------------------------------------------------------------------------
(* Bounds of the model.                                                      *)

\* Request slots handled concurrently.
NumReq == 2
\* Longest list of parts in an upstream reply.
MaxParts == 2
\* Longest PCM buffer given to the encoder.
MaxPcmLen == 4

Reqs == 1..NumReq

\* The byte values the enumerated PCM buffers are made of.
ByteVals == {0, 129, 255}

RECURSIVE SeqsUpTo(_, _)
\* Every sequence over S of length at most n.
SeqsUpTo(S, n) ==
    IF n = 0 THEN {<<>>}
    ELSE LET shorter == SeqsUpTo(S, n - 1)
         IN  shorter \cup {Append(s, x) : s \in shorter, x \in S}

----------------------------------------------------------------------------
(* Buffers and base64 (Buffer.from(s, 'base64'), buf.toString('base64')).    *)

B64Pad == 64

RECURSIVE B64Encode(_)
\* buf.toString('base64'): 3 bytes make 4 characters; a tail of 1 or 2 bytes
\* makes 2 or 3 characters and is padded with '=' to 4.
B64Encode(bytes) ==
    IF Len(bytes) = 0 THEN <<>>
    ELSE IF Len(bytes) = 1 THEN
        << bytes[1] \div 4, (bytes[1] % 4) * 16, B64Pad, B64Pad >>
    ELSE IF Len(bytes) = 2 THEN
        << bytes[1] \div 4,
           (bytes[1] % 4) * 16 + bytes[2] \div 16,
           (bytes[2] % 16) * 4,
           B64Pad >>
    ELSE
        << bytes[1] \div 4,
           (bytes[1] % 4) * 16 + bytes[2] \div 16,
           (bytes[2] % 16) * 4 + bytes[3] \div 64,
           bytes[3] % 64 >>
        \o B64Encode(SubSeq(bytes, 4, Len(bytes)))

RECURSIVE B64Decode(_)
\* Buffer.from(s, 'base64'): 4 characters make 3 bytes; decoding stops at the
\* padding; a tail of 2 or 3 characters makes 1 or 2 bytes, a tail of 1 none.
B64Decode(chars) ==
    LET n == IF \E i \in 1..Len(chars) : chars[i] = B64Pad
             THEN (CHOOSE i \in 1..Len(chars) :
                      /\ chars[i] = B64Pad
                      /\ \A j \in 1..(i - 1) : chars[j] # B64Pad) - 1
             ELSE Len(chars)
        b1 == chars[1] * 4 + chars[2] \div 16
        b2 == (chars[2] % 16) * 16 + chars[3] \div 4
        b3 == (chars[3] % 4) * 64 + chars[4]
    IN  IF n < 2 THEN <<>>
        ELSE IF n = 2 THEN << b1 >>
        ELSE IF n = 3 THEN << b1, b2 >>
        ELSE << b1, b2, b3 >> \o B64Decode(SubSeq(chars, 5, Len(chars)))

\* Buffer.alloc(n): n zero bytes.
BufferAlloc(n) == [i \in 1..n |-> 0]

\* buf.write / buf.writeUIntXXLE / src.copy(buf, off): bytes placed at offset off.
WriteAt(buf, off, bytes) ==
    [i \in 1..Len(buf) |->
        IF i - 1 >= off /\ i - 1 < off + Len(bytes) THEN bytes[i - off] ELSE buf[i]]

UInt32LE(v) ==
    << v % 256, (v \div 256) % 256, (v \div 65536) % 256, (v \div 16777216) % 256 >>

UInt16LE(v) == << v % 256, (v \div 256) % 256 >>

\* The ASCII codes of the four chunk tags.
TagRIFF == << 82, 73, 70, 70 >>
TagWAVE == << 87, 65, 86, 69 >>
TagFmt  == << 102, 109, 116, 32 >>
TagData == << 100, 97, 116, 97 >>

sampleRate == 24000
numChannels == 1
bitsPerSample == 16
headerSize == 44

\* The encoder with a RIFF chunk size that counts the whole file.
pcmToWav_NoMinus8(pcmBase64) ==
    LET pcmBuffer  == B64Decode(pcmBase64)
        byteRate   == sampleRate * numChannels * (bitsPerSample \div 8)
        blockAlign == numChannels * (bitsPerSample \div 8)
        dataSize   == Len(pcmBuffer)
        w0  == BufferAlloc(headerSize + dataSize)
        w1  == WriteAt(w0, 0, TagRIFF)
        w2  == WriteAt(w1, 4, UInt32LE(headerSize + dataSize))
        w3  == WriteAt(w2, 8, TagWAVE)
        w4  == WriteAt(w3, 12, TagFmt)
        w5  == WriteAt(w4, 16, UInt32LE(16))
        w6  == WriteAt(w5, 20, UInt16LE(1))
        w7  == WriteAt(w6, 22, UInt16LE(numChannels))
        w8  == WriteAt(w7, 24, UInt32LE(sampleRate))
        w9  == WriteAt(w8, 28, UInt32LE(byteRate))
        w10 == WriteAt(w9, 32, UInt16LE(blockAlign))
        w11 == WriteAt(w10, 34, UInt16LE(bitsPerSample))
        w12 == WriteAt(w11, 36, TagData)
        w13 == WriteAt(w12, 40, UInt32LE(dataSize))
        w14 == WriteAt(w13, headerSize, pcmBuffer)
    IN  B64Encode(w14)

pcmToWav(pcmBase64) ==
    LET pcmBuffer  == B64Decode(pcmBase64)
        byteRate   == sampleRate * numChannels * (bitsPerSample \div 8)
        blockAlign == numChannels * (bitsPerSample \div 8)
        dataSize   == Len(pcmBuffer)
        w0  == BufferAlloc(headerSize + dataSize)
        w1  == WriteAt(w0, 0, TagRIFF)
        w2  == WriteAt(w1, 4, UInt32LE(headerSize + dataSize - 8))
        w3  == WriteAt(w2, 8, TagWAVE)
        w4  == WriteAt(w3, 12, TagFmt)
        w5  == WriteAt(w4, 16, UInt32LE(16))
        w6  == WriteAt(w5, 20, UInt16LE(1))
        w7  == WriteAt(w6, 22, UInt16LE(numChannels))
        w8  == WriteAt(w7, 24, UInt32LE(sampleRate))
        w9  == WriteAt(w8, 28, UInt32LE(byteRate))
        w10 == WriteAt(w9, 32, UInt16LE(blockAlign))
        w11 == WriteAt(w10, 34, UInt16LE(bitsPerSample))
        w12 == WriteAt(w11, 36, TagData)
        w13 == WriteAt(w12, 40, UInt32LE(dataSize))
        w14 == WriteAt(w13, headerSize, pcmBuffer)
    IN  B64Encode(w14)

----------------------------------------------------------------------------
(* JavaScript values, truthiness, String.prototype.includes, property lookup. *)

Undefined == [t |-> "undefined", v |-> ""]
Str(s) == [t |-> "string", v |-> s]
Fn(name) == [t |-> "function", v |-> name]
Obj(name) == [t |-> "object", v |-> name]

\* A truthiness that takes the empty string for a value.
Truthy_NotUndefined(x) == x.t # "undefined"

\* !x is false for objects, functions and non-empty strings.
Truthy(x) == x.t \in {"object", "function"} \/ (x.t = "string" /\ x.v # "")

\* A destructuring default ({ gender = 'neutral' }) applies to undefined only.
Default(x, d) == IF x = Undefined THEN d ELSE x

\* s.includes(sub)
Includes(s, sub) ==
    \E i \in 0..(Len(s) - Len(sub)) : SubSeq(s, i + 1, i + Len(sub)) = sub

NoProps == [k \in {} |-> Undefined]

VOICE_CONFIG ==
    ("es-latam" :> [male |-> "Sulafat", female |-> "Achernar", neutral |-> "Aoede"])
    @@ ("en" :> [male |-> "Sulafat", female |-> "Vindemiatrix", neutral |-> "Enceladus"])

\* The object VOICE_CONFIG itself; Obj(lang) is the table VOICE_CONFIG[lang].
VoiceConfigObj == Obj("VOICE_CONFIG")

\* What every object literal inherits from Object.prototype, and every function
\* from Function.prototype (the properties the enumerated keys can name).
ObjectPrototype == ("constructor" :> Fn("Object")) @@ ("toString" :> Fn("toString"))
FunctionPrototype == ("constructor" :> Fn("Function")) @@ ("toString" :> Fn("toString"))

OwnProps(o) ==
    IF o = VoiceConfigObj THEN [lang \in DOMAIN VOICE_CONFIG |-> Obj(lang)]
    ELSE IF o.t = "object" /\ o.v \in DOMAIN VOICE_CONFIG
         THEN [g \in DOMAIN VOICE_CONFIG[o.v] |-> Str(VOICE_CONFIG[o.v][g])]
    ELSE IF o.t = "function" THEN ("name" :> Str(o.v))
    ELSE NoProps

\* o[key]: an own property, else one found along the prototype chain, else
\* undefined.
GetProp(o, key) ==
    IF key \in DOMAIN OwnProps(o) THEN OwnProps(o)[key]
    ELSE IF o.t = "function" /\ key \in DOMAIN FunctionPrototype THEN FunctionPrototype[key]
    ELSE IF o.t \in {"object", "function"} /\ key \in DOMAIN ObjectPrototype
         THEN ObjectPrototype[key]
    ELSE Undefined

\* o?.[key]
OptGetProp(o, key) == IF o = Undefined THEN Undefined ELSE GetProp(o, key)

FallbackVoice == Str("Aoede")

\* VOICE_CONFIG[contentLanguage]?.[gender] || 'Aoede'
ResolveVoice(contentLanguage, gender) ==
    LET found == OptGetProp(GetProp(VoiceConfigObj, contentLanguage.v), gender.v)
    IN  IF Truthy(found) THEN found ELSE FallbackVoice

----------------------------------------------------------------------------
(* The upstream reply (response.candidates[0].content.parts) and the HTTP     *)
(* response (res).                                                           *)

\* A part without inlineData (a text part).
TextPart == [inline |-> FALSE, data |-> <<>>, mimeType |-> ""]
\* A part with inlineData { data, mimeType }; an absent or empty data is <<>>,
\* an absent or empty mimeType is "".
InlinePart(data, mimeType) == [inline |-> TRUE, data |-> data, mimeType |-> mimeType]

\* A reply whose candidates[0].content.parts is the given list.
Reply(parts) == [set |-> TRUE, hasParts |-> TRUE, parts |-> parts]
\* A reply without candidates, or whose first candidate has no content.parts.
NoCandidates == [set |-> TRUE, hasParts |-> FALSE, parts |-> <<>>]
\* The local `response` before any reply is assigned to it.
NoResponse == [set |-> FALSE, hasParts |-> FALSE, parts |-> <<>>]

\* res before anything is sent.
NoRes == [status |-> 0, sends |-> 0, body |-> NoProps]

\* JSON.stringify of an object: properties whose value is undefined or a
\* function are left out.
Json(obj) == [k \in {f \in DOMAIN obj : obj[f].t \notin {"undefined", "function"}} |-> obj[k]]

REQUEST_TIMEOUT_MS == 300000
RETRY_DELAY_MS == 1000

DefaultMimeType == "audio/L16;rate=24000"
ConnectionMessage == "Connection to Gemini API failed. Please try again."
TimeoutMessage == "Request timed out. The text might be too long."

----------------------------------------------------------------------------
(* The frame of one POST /synthesize invocation: its position, its locals,   *)
(* what it sent, and the record of what it did (calls, errs, log, delays).   *)

Idle ==
    [ pc |-> "idle",
      body |-> [text |-> Undefined, gender |-> Undefined, contentLanguage |-> Undefined],
      voiceName |-> Undefined,
      contentLanguage |-> Undefined,
      attempt |-> 0,
      lastError |-> "",
      controller |-> "none",
      timeoutMs |-> 0,
      response |-> NoResponse,
      res |-> NoRes,
      calls |-> <<>>,
      errs |-> <<>>,
      log |-> <<>>,
      delays |-> <<>> ]

\* res.status(status).json(obj)
Send(s, status, obj) ==
    [s EXCEPT !.pc = "done",
              !.res = [status |-> status, sends |-> s.res.sends + 1, body |-> Json(obj)]]

\* The loop condition: attempt <= 2.
InLoop_Three(attempt) == attempt <= 3
InLoop(attempt) == attempt <= 2

\* The condition of the delay: attempt < 2.
DelayBeforeRetry_Always(attempt) == attempt <= 2
DelayBeforeRetry(attempt) == attempt < 2

\* The rewriting with the two tests in the other order.
UserMessage_TimeoutFirst(message) ==
    IF Includes(message, "timeout") \/ Includes(message, "aborted") THEN TimeoutMessage
    ELSE IF Includes(message, "fetch failed") \/ Includes(message, "ECONNRESET")
         THEN ConnectionMessage
    ELSE message

\* The outer catch's rewriting of error.message.
UserMessage(message) ==
    IF Includes(message, "fetch failed") \/ Includes(message, "ECONNRESET")
    THEN ConnectionMessage
    ELSE IF Includes(message, "timeout") \/ Includes(message, "aborted") THEN TimeoutMessage
    ELSE message

\* The outer catch: res.status(500).json({ error: userMessage }).
OuterCatch(s, message) == Send(s, 500, [error |-> Str(UserMessage(message))])

\* One iteration of the loop up to the await in generateTTSWithTimeout: a new
\* binding of `response`, a new AbortController, its timer started, and
\* ai.models.generateContent called with the voice (the controller's signal is
\* not among the call's arguments).
StartCall(s) ==
    [s EXCEPT !.pc = "awaiting",
              !.response = NoResponse,
              !.controller = "armed",
              !.timeoutMs = REQUEST_TIMEOUT_MS,
              !.calls = Append(@, s.voiceName),
              !.log = Append(@, "call")]

\* attempt++, the loop test, and either the next attempt or `throw lastError`.
NextIteration(s) ==
    LET s1 == [s EXCEPT !.attempt = @ + 1]
    IN  IF InLoop(s1.attempt) THEN StartCall(s1) ELSE OuterCatch(s1, s1.lastError)

\* The inner catch up to its await: lastError = error, and the delay when
\* another attempt follows.
InnerCatch(s, message) ==
    LET s1 == [s EXCEPT !.lastError = message,
                        !.errs = Append(@, message),
                        !.log = Append(@, "fail")]
    IN  IF DelayBeforeRetry(s1.attempt)
        THEN [s1 EXCEPT !.pc = "sleeping",
                        !.delays = Append(@, RETRY_DELAY_MS),
                        !.log = Append(@, "delay")]
        ELSE NextIteration(s1)

\* parts.find(part => part.inlineData): the index of the first part with
\* inlineData, 0 when there is none.
FindInline_Last(parts) ==
    IF \E i \in 1..Len(parts) : parts[i].inline
    THEN CHOOSE i \in 1..Len(parts) :
            parts[i].inline /\ \A j \in (i + 1)..Len(parts) : ~parts[j].inline
    ELSE 0
FindInline(parts) ==
    IF \E i \in 1..Len(parts) : parts[i].inline
    THEN CHOOSE i \in 1..Len(parts) : parts[i].inline /\ \A j \in 1..(i - 1) : ~parts[j].inline
    ELSE 0

\* rawMimeType.includes('L16') || rawMimeType.includes('pcm')
IsPcm_L16Only(rawMimeType) == Includes(rawMimeType, "L16")
IsPcm(rawMimeType) == Includes(rawMimeType, "L16") \/ Includes(rawMimeType, "pcm")

\* The body of the try after the await: the extraction of the audio part, the
\* conversion, and res.json; each throw lands in the inner catch.
OnResponse(s, reply) ==
    LET s1 == [s EXCEPT !.response = reply]
        idx == FindInline(reply.parts)
    IN  IF ~reply.hasParts THEN InnerCatch(s1, "No audio content in response")
        ELSE IF idx = 0 \/ reply.parts[idx].data = <<>>
        THEN InnerCatch(s1, "No audio data found in response")
        ELSE LET rawAudioBase64 == reply.parts[idx].data
                 rawMimeType == IF reply.parts[idx].mimeType # ""
                                THEN reply.parts[idx].mimeType ELSE DefaultMimeType
                 audioBase64 == IF IsPcm(rawMimeType) THEN pcmToWav(rawAudioBase64)
                                ELSE rawAudioBase64
                 mimeType == IF IsPcm(rawMimeType) THEN "audio/wav" ELSE rawMimeType
             IN  Send([s1 EXCEPT !.log = Append(@, "ok")], 200,
                      [ audioContent |-> Str(audioBase64),
                        mimeType |-> Str(mimeType),
                        voice |-> s1.voiceName,
                        language |-> s1.contentLanguage ])

\* The handler from its entry to its first await or response.
Synthesize(body) ==
    LET text == body.text
        gender == Default(body.gender, Str("neutral"))
        contentLanguage == Default(body.contentLanguage, Str("es-latam"))
        s0 == [Idle EXCEPT !.body = body]
    IN  IF ~Truthy(text) THEN Send(s0, 400, [error |-> Str("Text is required")])
        ELSE LET s1 == [s0 EXCEPT !.voiceName = ResolveVoice(contentLanguage, gender),
                                  !.contentLanguage = contentLanguage,
                                  !.attempt = 1]
             IN  IF InLoop(s1.attempt) THEN StartCall(s1) ELSE OuterCatch(s1, s1.lastError)

----------------------------------------------------------------------------
(* The inputs: request bodies, upstream replies, upstream errors.            *)

Texts == {Undefined, Str(""), Str("hola")}
Genders ==
    {Undefined, Str("male"), Str("female"), Str("neutral"), Str("other"),
     Str("constructor"), Str("name")}
Languages == {Undefined, Str("es-latam"), Str("en"), Str("fr"), Str("constructor")}

\* req.body of the requests of the sequential specification.
Bodies == [text : Texts, gender : Genders, contentLanguage : Languages]

\* req.body of the requests of the concurrent specification.
ConcBodies ==
    [text : Texts, gender : {Undefined, Str("constructor")}, contentLanguage : {Undefined}]

\* Two payloads of audio, as the upstream sends them.
PcmA == B64Encode(<< 0, 129 >>)
PcmB == B64Encode(<< 255 >>)

\* The declared MIME types; "" is an absent one.
MimeTypes == {"", DefaultMimeType, "audio/pcm", "audio/mpeg"}

\* The parts of a reply: a text part, inline parts with a payload, and an
\* inline part whose data is empty.
Parts ==
    {TextPart, InlinePart(<<>>, DefaultMimeType), InlinePart(PcmB, "audio/mpeg")}
    \cup {InlinePart(PcmA, m) : m \in MimeTypes}

Replies == {NoCandidates} \cup {Reply(ps) : ps \in SeqsUpTo(Parts, MaxParts)}

ConcReplies ==
    { NoCandidates,
      Reply(<< InlinePart(PcmA, DefaultMimeType) >>),
      Reply(<< TextPart, InlinePart(PcmB, "audio/mpeg") >>) }

\* error.message of a rejected generateContent call.
RejectMessages ==
    { "fetch failed",
      "read ECONNRESET",
      "Request timeout",
      "This operation was aborted",
      "fetch failed after timeout",
      "got status: 503 Service Unavailable" }

ConcRejectMessages == {"fetch failed"}

----------------------------------------------------------------------------
(* The state and the steps.                                                  *)

VARIABLES
    frames,      \* request slot -> the frame of its POST /synthesize invocation
    pcmBase64,   \* the argument of a direct call of pcmToWav
    wavBase64,   \* its result
    encoded      \* whether the call has returned

vars == << frames, pcmBase64, wavBase64, encoded >>
encVars == << pcmBase64, wavBase64, encoded >>

\* A POST /synthesize arrives in a free slot.
Receive(r, body) ==
    /\ frames[r].pc = "idle"
    /\ frames' = [frames EXCEPT ![r] = Synthesize(body)]
    /\ UNCHANGED encVars

\* The awaited generateContent resolves; clearTimeout; the handler goes on.
Resolve(r, reply) ==
    /\ frames[r].pc = "awaiting"
    /\ frames' = [frames EXCEPT ![r] =
                     OnResponse([@ EXCEPT !.controller = "none", !.timeoutMs = 0], reply)]
    /\ UNCHANGED encVars

\* The awaited generateContent rejects; clearTimeout; the error is rethrown
\* into the inner catch.
Reject(r, message) ==
    /\ frames[r].pc = "awaiting"
    /\ frames' = [frames EXCEPT ![r] =
                     InnerCatch([@ EXCEPT !.controller = "none", !.timeoutMs = 0], message)]
    /\ UNCHANGED encVars

\* The deadline's timer fires: controller.abort().  Nothing listens to the
\* controller's signal, so the await goes on.
TimerFire(r) ==
    /\ frames[r].pc = "awaiting"
    /\ frames[r].controller = "armed"
    /\ frames' = [frames EXCEPT ![r].controller = "aborted"]
    /\ UNCHANGED encVars

\* The delay between two attempts is over.
SleepDone(r) ==
    /\ frames[r].pc = "sleeping"
    /\ frames' = [frames EXCEPT ![r] = NextIteration(@)]
    /\ UNCHANGED encVars

\* The handler has returned and its response is sent: the frame is gone and
\* the slot is free for a later request.
Release(r) ==
    /\ frames[r].pc = "done"
    /\ frames' = [frames EXCEPT ![r] = Idle]
    /\ UNCHANGED encVars

\* A direct call of the encoder.
Encode ==
    /\ ~encoded
    /\ wavBase64' = pcmToWav(pcmBase64)
    /\ encoded' = TRUE
    /\ UNCHANGED << frames, pcmBase64 >>

HandlerInit == frames = [r \in Reqs |-> Idle]
EncoderIdle == pcmBase64 = <<>> /\ wavBase64 = <<>> /\ encoded = TRUE

\* Concurrent requests.
Init == HandlerInit /\ EncoderIdle

Next ==
    \E r \in Reqs :
        \/ \E body \in ConcBodies : Receive(r, body)
        \/ \E reply \in ConcReplies : Resolve(r, reply)
        \/ \E message \in ConcRejectMessages : Reject(r, message)
        \/ TimerFire(r)
        \/ SleepDone(r)
        \/ Release(r)

Spec == Init /\ [][Next]_vars

\* One request after the other, over the wide inputs.
SeqNext ==
    \/ \E body \in Bodies : Receive(1, body)
    \/ \E reply \in Replies : Resolve(1, reply)
    \/ \E message \in RejectMessages : Reject(1, message)
    \/ TimerFire(1)
    \/ SleepDone(1)
    \/ Release(1)

SeqSpec == Init /\ [][SeqNext]_vars

\* The encoder alone, on every PCM buffer within the bounds.
EncInit ==
    /\ HandlerInit
    /\ pcmBase64 \in {B64Encode(pcm) : pcm \in SeqsUpTo(ByteVals, MaxPcmLen)}
    /\ wavBase64 = <<>>
    /\ encoded = FALSE

EncNext == Encode

EncSpec == EncInit /\ [][EncNext]_vars

----------------------------------------------------------------------------
(* The claims.                                                               *)

\* The 32-bit little-endian field at offset off of a buffer.
ReadUInt32LE(buf, off) ==
    buf[off + 1] + 256 * buf[off + 2] + 65536 * buf[off + 3] + 16777216 * buf[off + 4]

\* A reply that carries no inline audio: no candidate parts, or no part with
\* inline data.
NoInlineAudio(reply) ==
    reply.set /\ (~reply.hasParts \/ \A i \in 1..Len(reply.parts) : ~reply.parts[i].inline)

\* C1: a request makes at most 2 outbound synthesis calls, whatever the other
\* requests do; once 2 calls have failed the request is over with a 500
\* response, and a 500 response comes after exactly 2 calls, both failed.
C1_AtMostTwoCalls ==
    \A r \in Reqs :
        LET f == frames[r]
        IN  /\ Len(f.calls) <= 2
            /\ Len(f.errs) <= Len(f.calls)
            /\ (Len(f.errs) = 2 => f.pc = "done" /\ f.res.status = 500)
            /\ (f.res.status = 500 => Len(f.calls) = 2 /\ Len(f.errs) = 2)

\* One request has ended with a 500 after its 2 calls while another is waiting
\* for its second call.
C1_Witness ==
    /\ frames[1].res.status = 500
    /\ Len(frames[1].calls) = 2
    /\ frames[2].pc = "awaiting"
    /\ Len(frames[2].calls) = 2

\* C2: once the deadline of an attempt has passed (the timer has fired and the
\* controller is aborted), the attempt is no longer waiting for the upstream:
\* it has been aborted and counted as failed.
C2_DeadlineEndsAttempt ==
    \A r \in Reqs : frames[r].controller = "aborted" => frames[r].pc # "awaiting"

\* C3: a request whose text is empty or absent gets a 400 response whose body
\* is an error, and makes no outbound call; no other request gets a 400.
C3_EmptyTextRejected ==
    \A r \in Reqs :
        LET f == frames[r]
            noText == f.body.text = Undefined \/ f.body.text = Str("")
        IN  f.pc # "idle" =>
                /\ noText <=> f.res.status = 400
                /\ noText =>
                      /\ f.pc = "done"
                      /\ f.calls = <<>>
                      /\ f.log = <<>>
                      /\ DOMAIN f.res.body = {"error"}

\* A request with an empty text has been answered.
C3_Witness ==
    \E r \in Reqs : frames[r].body.text = Str("") /\ frames[r].res.status = 400

\* C4: a request whose first attempt fails and whose second succeeds ends with
\* a 200 response after exactly 2 calls and exactly one delay, taken between
\* the failure of attempt 1 and the start of attempt 2; a request that is over
\* has taken one delay less than it made calls, none after its last attempt.
C4_OneDelayBetweenAttempts ==
    \A r \in Reqs :
        LET f == frames[r]
        IN  /\ (f.res.status = 200 /\ Len(f.errs) = 1) =>
                  /\ Len(f.calls) = 2
                  /\ f.delays = << RETRY_DELAY_MS >>
                  /\ f.log = << "call", "fail", "delay", "call", "ok" >>
            /\ (f.pc = "done" /\ f.calls # <<>>) =>
                  /\ Len(f.delays) = Len(f.calls) - 1
                  /\ f.log[Len(f.log)] # "delay"

\* A request has succeeded at its second attempt.
C4_Witness ==
    \E r \in Reqs : frames[r].res.status = 200 /\ Len(frames[r].errs) = 1

\* C5: for a PCM buffer of length L the encoder's output has length L + 44, its
\* bytes from offset 44 on are the input, its data-size field (offset 40) is L
\* and its total-size field (offset 4) is L + 36, both little-endian.
C5_WavLayout ==
    encoded =>
        LET pcm == B64Decode(pcmBase64)
            wav == B64Decode(wavBase64)
            L == Len(pcm)
        IN  /\ Len(wav) = L + 44
            /\ SubSeq(wav, 45, 44 + L) = pcm
            /\ ReadUInt32LE(wav, 40) = L
            /\ ReadUInt32LE(wav, 4) = L + 36

\* A buffer of 4 bytes, longer than one base64 group, has been encoded.
C5_Witness == encoded /\ Len(B64Decode(pcmBase64)) = 4 /\ Len(wavBase64) > 0

\* C6: in a 200 response, when the MIME type declared by the payload's part
\* contains "L16" or "pcm", audioContent is the WAV encoding of the payload and
\* mimeType is "audio/wav"; for any other declared MIME type audioContent and
\* mimeType are the upstream's payload and MIME type.
C6_MimeHandling ==
    \A r \in Reqs :
        LET f == frames[r]
            part == f.response.parts[FindInline(f.response.parts)]
            declared == part.mimeType
        IN  (f.res.status = 200 /\ declared # "") =>
                IF Includes(declared, "L16") \/ Includes(declared, "pcm")
                THEN /\ f.res.body.audioContent = Str(pcmToWav(part.data))
                     /\ f.res.body.mimeType = Str("audio/wav")
                ELSE /\ f.res.body.audioContent = Str(part.data)
                     /\ f.res.body.mimeType = Str(declared)

\* A payload declared "audio/pcm" has been answered as "audio/wav".
C6_Witness ==
    \E r \in Reqs :
        /\ frames[r].res.status = 200
        /\ frames[r].response.parts[FindInline(frames[r].response.parts)].mimeType
              = "audio/pcm"
        /\ frames[r].res.body.mimeType = Str("audio/wav")

\* The voice table as the claim C7 states it.
C7Table ==
    (<< "es-latam", "male" >> :> "Sulafat")
    @@ (<< "es-latam", "female" >> :> "Achernar")
    @@ (<< "es-latam", "neutral" >> :> "Aoede")
    @@ (<< "en", "male" >> :> "Sulafat")
    @@ (<< "en", "female" >> :> "Vindemiatrix")
    @@ (<< "en", "neutral" >> :> "Enceladus")

\* C7: the voice sent upstream and returned in the result is the table's voice
\* for (contentLanguage, gender), with gender "neutral" and contentLanguage
\* "es-latam" when unset, and "Aoede" when the language or the gender is not
\* in the table.
C7_VoiceFromTable ==
    \A r \in Reqs :
        LET f == frames[r]
            lang == IF f.body.contentLanguage = Undefined THEN "es-latam"
                    ELSE f.body.contentLanguage.v
            gender == IF f.body.gender = Undefined THEN "neutral" ELSE f.body.gender.v
            voice == IF << lang, gender >> \in DOMAIN C7Table
                     THEN C7Table[<< lang, gender >>] ELSE "Aoede"
        IN  /\ \A i \in 1..Len(f.calls) : f.calls[i] = Str(voice)
            /\ f.res.status = 200 =>
                  "voice" \in DOMAIN f.res.body /\ f.res.body.voice = Str(voice)

\* C8: the error of a 500 response is derived from the second attempt's
\* failure: the connection message when its message contains "fetch failed" or
\* "ECONNRESET", otherwise the timeout message when it contains "timeout" or
\* "aborted", otherwise the message itself; the handler is over, with 2 calls.
C8_LastErrorSurfaced ==
    \A r \in Reqs :
        LET f == frames[r]
            m == f.errs[2]
        IN  f.res.status = 500 =>
                /\ Len(f.errs) = 2
                /\ f.pc = "done"
                /\ Len(f.calls) = 2
                /\ DOMAIN f.res.body = {"error"}
                /\ f.res.body.error =
                      Str(IF Includes(m, "fetch failed") \/ Includes(m, "ECONNRESET")
                          THEN "Connection to Gemini API failed. Please try again."
                          ELSE IF Includes(m, "timeout") \/ Includes(m, "aborted")
                          THEN "Request timed out. The text might be too long."
                          ELSE m)

\* Two attempts have failed differently, and the response tells the second
\* failure, whose message contains both "fetch failed" and "timeout".
C8_Witness ==
    \E r \in Reqs :
        /\ frames[r].res.status = 500
        /\ frames[r].errs = << "Request timeout", "fetch failed after timeout" >>
        /\ frames[r].res.body.error = Str(ConnectionMessage)

\* C9: a reply without inline audio is a failed attempt like any other: every
\* failure of attempt 1 leads to the same delay before attempt 2, every
\* failure of attempt 2 to the 500 response, and such a reply is followed by
\* one of the two; in a 200 response the payload is that of the first part of
\* the reply that carries inline data.
C9_MalformedReplyIsAFailure ==
    \A r \in Reqs :
        LET f == frames[r]
            parts == f.response.parts
        IN  /\ f.pc = "sleeping" =>
                  /\ f.attempt = 1 /\ Len(f.errs) = 1 /\ Len(f.calls) = 1
                  /\ f.delays = << RETRY_DELAY_MS >>
            /\ f.res.status = 500 =>
                  /\ f.attempt = 3 /\ Len(f.errs) = 2 /\ Len(f.calls) = 2
                  /\ f.delays = << RETRY_DELAY_MS >>
            /\ NoInlineAudio(f.response) =>
                  /\ f.pc = "sleeping" \/ (f.pc = "done" /\ f.res.status = 500)
                  /\ f.errs[Len(f.errs)] \in
                        {"No audio content in response", "No audio data found in response"}
            /\ f.res.status = 200 =>
                  \E i \in 1..Len(parts) :
                      /\ parts[i].inline
                      /\ \A j \in 1..(i - 1) : ~parts[j].inline
                      /\ f.res.body.audioContent \in
                            {Str(parts[i].data), Str(pcmToWav(parts[i].data))}

\* A reply whose parts carry no inline data has failed attempt 1, and the
\* request is in the delay before attempt 2.
C9_Witness ==
    \E r \in Reqs :
        /\ frames[r].pc = "sleeping"
        /\ frames[r].response.hasParts
        /\ NoInlineAudio(frames[r].response)

\* C10: a request gets at most one response: a 200 with audioContent,
\* mimeType, voice and language all set, sent by an attempt that succeeded, or
\* a 400 or 500 with only an error; with the response the handler is over.
C10_AllOrNothing ==
    \A r \in Reqs :
        LET f == frames[r]
        IN  /\ f.res.sends <= 1
            /\ f.res.status \in {0, 200, 400, 500}
            /\ (f.res.sends = 1) <=> (f.pc = "done")
            /\ f.res.status = 200 =>
                  /\ DOMAIN f.res.body = {"audioContent", "mimeType", "voice", "language"}
                  /\ f.log[Len(f.log)] = "ok"
            /\ f.res.status \in {400, 500} => DOMAIN f.res.body = {"error"}

====
